---- MODULE Spec2Model ----
(***************************************************************************)
(* State-machine model of the TV-show catalog viewer (src/script.js).      *)
(*                                                                         *)
(* The three state objects of the script (stateData, stateSearch,          *)
(* statePagination) are the variables of the same names as their fields;   *)
(* the parts of the DOM the handlers read back (status messages, the two   *)
(* dropdowns, the card container, the pagination container) are variables  *)
(* too.  The remote API is the environment: a fixed catalog and fixed      *)
(* episode lists, with the outcome of every request chosen freely.         *)
(*                                                                         *)
(* Records are held by reference, as in the script: a show is its id, an   *)
(* episode is its id, and the fields are looked up with Show(_) and        *)
(* Episode(_).  Strings that are searched are sequences of characters.     *)
(* Catalog shows carry a genres array (renderShowsPage dereferences it     *)
(* unconditionally).  Episodes carry season and number, except the special *)
(* episode of the list ServerEpisodesWithSpecial, whose number is null,    *)
(* and the two records of the list ServerEpisodesWithAbsentFields, one     *)
(* without a number key and one without a season key.                      *)
(* A 200 response to an episode request carries an array of episodes, a    *)
(* JSON object with or without a length property, null, a string or the    *)
(* empty string.                                                           *)
(***************************************************************************)
EXTENDS Integers, Sequences, FiniteSets, TLC

\* ------------------------------------------------------------------ bounds

\* Episode requests issued in one session.
MaxEpisodeFetches == 2

\* Network requests issued by fetchWithCache when it is checked on its own.
MaxCacheRequests == 3

\* Length of the lists the filters are given when they are checked on their own.
MaxListLen == 3

\* ------------------------------------------------------- program constants

\* fetchAllShows(maxPages = 10)
maxPages == 10

\* statePagination.itemsPerPage initial value
DefaultItemsPerPage == 12

\* the options of the items-per-page selector
PageSizes == {6, 12, 24, 48}

\* stateData.currentShowId: null
null == 0

\* value of the "Show All Shows" option of dDBAllShows
allShows_option == 0

\* value of the "Show All Episodes" option of dropDownBoxFill
all_option == 0

\* value of a select element that has no option
NoValue == -1

\* undefined: episodes.length when the body is not an array, and the value
\* read from a key that a record does not have
undefined == -1

\* ------------------------------------------------------------ JSON values

JArray(s) == [type |-> "array", items |-> s]
JObject == [type |-> "object", items |-> <<>>]
JNull == [type |-> "null", items |-> <<>>]
JString == [type |-> "string", items |-> <<>>]

\* The body "": the empty string
JEmptyString == [type |-> "emptystring", items |-> <<>>]

\* The body {"length": 5}: an object with a length property
JLengthObject == [type |-> "lengthobject", items |-> <<>>]

\* The text of the JSON string body.
StringBody == <<"a", "b", "c">>

\* The length property of the body JLengthObject.
LengthProperty == Len(StringBody) + 2

\* The outcome of reading a property of null
TypeError == -2

\* episodes.length / allEpisodes.length
length(json) ==
    IF json.type = "array" THEN Len(json.items)
    ELSE IF json.type = "string" THEN Len(StringBody)
    ELSE IF json.type = "emptystring" THEN 0
    ELSE IF json.type = "lengthobject" THEN LengthProperty
    ELSE IF json.type = "null" THEN TypeError
    ELSE undefined

\* getPage's local `data` while no fetchWithCache call has returned to it
NoData == [type |-> "none", items |-> <<>>]

\* The outcome of a fetchWithCache call that threw
Thrown == [type |-> "thrown", items |-> <<>>]

\* ---------------------------------------------------------------- strings

\* String.prototype.toLowerCase, character by character
LowerChar(c) == CASE c = "A" -> "a" [] c = "B" -> "b" [] c = "C" -> "c" [] OTHER -> c

toLowerCase(s) == [i \in 1..Len(s) |-> LowerChar(s[i])]

RECURSIVE trimStart(_)
trimStart(s) == IF s /= <<>> /\ Head(s) = " " THEN trimStart(Tail(s)) ELSE s

RECURSIVE trimEnd(_)
trimEnd(s) ==
    IF s /= <<>> /\ s[Len(s)] = " " THEN trimEnd(SubSeq(s, 1, Len(s) - 1)) ELSE s

\* String.prototype.trim
trim(s) == trimEnd(trimStart(s))

\* String.prototype.includes
includes(hay, needle) ==
    \E i \in 0..(Len(hay) - Len(needle)) : SubSeq(hay, i + 1, i + Len(needle)) = needle

\* Array.prototype.join
RECURSIVE join(_, _)
join(parts, sep) ==
    IF parts = <<>> THEN <<>>
    ELSE IF Len(parts) = 1 THEN parts[1]
    ELSE parts[1] \o sep \o join(Tail(parts), sep)

\* Position of a lower-cased character in the collation order.
CharRank(c) == CASE c = " " -> 0 [] c = "a" -> 1 [] c = "b" -> 2 [] c = "c" -> 3 [] OTHER -> 4

\* a.localeCompare(b) for lower-cased strings: -1, 0 or 1
RECURSIVE localeCompare(_, _)
localeCompare(a, b) ==
    IF a = <<>> /\ b = <<>> THEN 0
    ELSE IF a = <<>> THEN -1
    ELSE IF b = <<>> THEN 1
    ELSE IF CharRank(Head(a)) < CharRank(Head(b)) THEN -1
    ELSE IF CharRank(Head(a)) > CharRank(Head(b)) THEN 1
    ELSE localeCompare(Tail(a), Tail(b))

\* ------------------------------------------------- the remote API's data

\* GET /shows?page=n: the pages of the catalog, in the server's order.
\* There are as many pages as fetchAllShows asks for at most.  (Show 13, with no
\* genres field, is not served: renderShowsPage could not render it.)
ServerShowPages ==
    << <<5, 6>>, <<3>>, <<4>>, <<7>>, <<8>>, <<9>>, <<10>>, <<11>>, <<12>>, <<1, 2>> >>

ShowIds == {1, 2, 3, 4, 5, 6, 7, 8, 9, 10, 11, 12}

ShowNames ==
    << <<"b">>, <<"A">>, <<"a">>, <<"A", "b">>, <<"b", "a">>, <<"B">>, <<"a", "a">>,
       <<"A", "B">>, <<"b", "b">>, <<"c">>, <<"B", "a">>, <<"c", "a">>, <<"b", "c">> >>

\* summary: an absent summary has hasSummary = FALSE
ShowSummaries ==
    << <<"c">>, <<>>, <<"B", "c">>, <<>>, <<"a", " ", "c">>, <<>>, <<"C">>,
       <<>>, <<"b">>, <<>>, <<>>, <<"A">>, <<>> >>

ShowHasSummary ==
    <<TRUE, FALSE, TRUE, FALSE, TRUE, TRUE, TRUE, FALSE, TRUE, FALSE, TRUE, TRUE, FALSE>>

\* genres: an absent genres field has hasGenres = FALSE
ShowHasGenres ==
    <<TRUE, TRUE, TRUE, TRUE, TRUE, TRUE, TRUE, TRUE, TRUE, TRUE, TRUE, TRUE, FALSE>>

ShowGenres ==
    << << <<"c", "a">> >>, <<>>, << <<"a">>, <<"b">> >>, <<>>, <<>>, << <<"C">> >>, <<>>,
       <<>>, << <<"c">> >>, <<>>, <<>>, << <<"b">>, <<"a">> >>, <<>> >>

Show(id) ==
    [id |-> id, name |-> ShowNames[id], hasSummary |-> ShowHasSummary[id],
     summary |-> ShowSummaries[id], hasGenres |-> ShowHasGenres[id],
     genres |-> ShowGenres[id]]

\* GET /shows?page=n answered with status 200
ServerPage(n) == IF n + 1 <= Len(ServerShowPages) THEN ServerShowPages[n + 1] ELSE <<>>

\* Number of episodes the API holds for each show.
EpisodeCounts == <<25, 31, 0, 0, 0, 0, 0, 0, 0, 0, 0, 0>>

\* Episode ids: the k-th episode of show s.
EpisodeId(s, k) == s * 100 + k

\* GET /shows/{s}/episodes answered with status 200
ServerEpisodes(s) == [k \in 1..EpisodeCounts[s] |-> EpisodeId(s, k)]

EpisodeIndex(e) == e % 100

\* episode.season: the record of index 97 has no season key.
EpisodeSeason(e) ==
    IF EpisodeIndex(e) = 97 THEN undefined ELSE 1 + (EpisodeIndex(e) \div 10)

\* episode.number: null for the special of index 99; the record of index 98
\* has no number key.
EpisodeNumber(e) ==
    IF EpisodeIndex(e) = 99 THEN null
    ELSE IF EpisodeIndex(e) = 98 THEN undefined ELSE EpisodeIndex(e)

Episode(e) ==
    [id |-> e,
     name |-> IF EpisodeIndex(e) % 3 = 1 THEN <<"A", "b">>
              ELSE IF EpisodeIndex(e) % 3 = 2 THEN <<"b">> ELSE <<"c", "a">>,
     hasSummary |-> EpisodeIndex(e) % 2 = 0,
     summary |-> IF EpisodeIndex(e) % 2 = 0 THEN <<"B", "c">> ELSE <<>>,
     season |-> EpisodeSeason(e),
     number |-> EpisodeNumber(e)]

\* GET /shows/{s}/episodes answered with status 200 and a list of thirteen
\* episodes, the seventh of them a special episode, whose number is null: it is
\* on the second page at 6 to a page and on the first at 12, 24 and 48.
ServerEpisodesWithSpecial(s) ==
    [k \in 1..13 |-> IF k = 7 THEN EpisodeId(s, 99) ELSE EpisodeId(s, k)]

\* GET /shows/{s}/episodes answered with status 200 and a list of eight
\* records, the seventh without a number key and the eighth without a season
\* key: the two are the second page at 6 to a page.
ServerEpisodesWithAbsentFields(s) ==
    [k \in 1..8 |-> IF k = 7 THEN EpisodeId(s, 98)
                    ELSE IF k = 8 THEN EpisodeId(s, 97) ELSE EpisodeId(s, k)]

\* What the user can type into a search input.
SearchInputs == { <<>>, <<" ">>, <<"A", " ">> }

\* The shows the user selects, by card or by dropdown.
SelectedShows == {1, 2}

\* The options the user picks in the episode dropdown: "all", and the second
\* episode of a show.
PickedEpisodes == {all_option} \cup {EpisodeId(s, 2) : s \in SelectedShows}

\* ----------------------------------------------------------------- state

VARIABLES
    \* stateData
    allShows, allEpisodes, fetchCache, currentShowId, episodeCounter,
    \* stateSearch
    view, value,
    \* statePagination
    currentPage, itemsPerPage, totalPages, currentDisplayList, currentType,
    \* setup(): where the async function stands
    setupPc, page, all, data,
    \* network
    pageRequests, episodeRequests, inflight,
    \* DOM
    statusMessages, dDBAllShows, dropDownBoxFill, cardContainer,
    paginationContainer

dataVars == <<allShows, allEpisodes, fetchCache, currentShowId, episodeCounter>>
searchVars == <<view, value>>
paginationVars == <<currentPage, itemsPerPage, totalPages, currentDisplayList, currentType>>
setupVars == <<setupPc, page, all, data>>
netVars == <<pageRequests, episodeRequests, inflight>>
domVars == <<statusMessages, dDBAllShows, dropDownBoxFill, cardContainer,
             paginationContainer>>
vars == <<dataVars, searchVars, paginationVars, setupVars, netVars, domVars>>

\* ------------------------------------------------------------ pagination

\* Math.ceil(a / b) for a >= 0, b > 0
CeilDiv(a, b) == (a + b - 1) \div b

Min(a, b) == IF a < b THEN a ELSE b
Max(a, b) == IF a > b THEN a ELSE b

\* Array.prototype.slice(start, end): negative indexes count from the end, both are clamped
slice(items, start, end) ==
    LET from == IF start < 0 THEN Max(Len(items) + start, 0) ELSE Min(start, Len(items))
        to == IF end < 0 THEN Max(Len(items) + end, 0) ELSE Min(end, Len(items))
    IN  IF from < to THEN SubSeq(items, from + 1, to) ELSE <<>>

\* displayPage with endIndex one short.
PageItems_ShortEnd(items, cp, ipp) == slice(items, (cp - 1) * ipp, (cp - 1) * ipp + ipp - 1)

\* The pageItems of displayPage for page cp with ipp items per page.
PageItems(items, cp, ipp) == slice(items, (cp - 1) * ipp, (cp - 1) * ipp + ipp)

\* A window that moves left near the last page to keep five numbers.
PageWindow_Shifted(cp, tp) ==
    Max(1, Min(cp - 2, tp - 4)) .. Min(tp, Max(1, Min(cp - 2, tp - 4)) + 4)

\* The page numbers createPagination renders buttons for.
PageWindow(cp, tp) == Max(1, cp - 2) .. Min(tp, Max(1, cp - 2) + 4)

\* The pagination container with its controls removed (innerHTML = '', display none);
\* also the state before the container exists.
NoControls ==
    [display |-> "none", controls |-> FALSE, prevDisabled |-> FALSE,
     nextDisabled |-> FALSE, pages |-> {}, selected |-> 0]

\* The controls createPagination builds when there is more than one page.
Controls(cp, tp, ipp) ==
    [display |-> "flex", controls |-> TRUE, prevDisabled |-> (cp = 1),
     nextDisabled |-> (cp = tp), pages |-> PageWindow(cp, tp), selected |-> ipp]

\* The new value of statePagination.totalPages.
TotalPagesOf(items, ipp) == CeilDiv(Len(items), ipp)

\* createPagination(items, type); currentPage' and itemsPerPage' are set by the caller.
createPagination(items, type) ==
    /\ currentDisplayList' = items
    /\ totalPages' = TotalPagesOf(items, itemsPerPage')
    /\ currentType' = type
    /\ paginationContainer' =
           IF totalPages' <= 1 THEN NoControls
           ELSE Controls(currentPage', totalPages', itemsPerPage')

\* eachShow.genres is an array: the record is a show that has the field.
HasGenres(x) == x \in DOMAIN ShowHasGenres /\ ShowHasGenres[x]

\* padNumber(num) throws at num.toString() when num is null or undefined.
PadNumberThrows(num) == num = null \/ num = undefined

\* formatEpisodeCode(season, number) throws in one of its two calls of padNumber.
FormatEpisodeCodeThrows(season, number) == PadNumberThrows(season) \/ PadNumberThrows(number)

\* The callback of forEach in dropBoxFill throws for the episode: it formats
\* every record, whether or not the record has a season and a number.
OptionThrows(e) == FormatEpisodeCodeThrows(EpisodeSeason(e), EpisodeNumber(e))

\* The callback of forEach in renderEpisodesPage throws for the episode: a
\* record without a season key or without a number key gets the code "Show",
\* every other record is formatted.
EpisodeCardThrows(e) ==
    /\ EpisodeSeason(e) /= undefined
    /\ EpisodeNumber(e) /= undefined
    /\ FormatEpisodeCodeThrows(EpisodeSeason(e), EpisodeNumber(e))

\* The callback of forEach throws for the record: renderShowsPage at
\* eachShow.genres.join for a show without genres, renderEpisodesPage at
\* formatEpisodeCode.
CardThrows(x, type) == IF type = "episodes" THEN EpisodeCardThrows(x) ELSE ~HasGenres(x)

\* renderEpisodesPage / renderShowsPage throws on the page.
RenderThrows(pageItems, type) ==
    SelectSeq(pageItems, LAMBDA x : CardThrows(x, type)) /= <<>>

\* The cards appended before the callback of forEach throws.
RECURSIVE CardsBeforeThrow(_, _)
CardsBeforeThrow(pageItems, type) ==
    IF pageItems = <<>> \/ CardThrows(Head(pageItems), type) THEN <<>>
    ELSE <<Head(pageItems)>> \o CardsBeforeThrow(Tail(pageItems), type)

\* The options dropBoxFill adds for the episodes before its callback throws.
RECURSIVE OptionsBeforeThrow(_)
OptionsBeforeThrow(episodes) ==
    IF episodes = <<>> \/ OptionThrows(Head(episodes)) THEN <<>>
    ELSE <<Head(episodes)>> \o OptionsBeforeThrow(Tail(episodes))

\* renderEpisodesPage / renderShowsPage: the class of the container and its cards.
renderPage(pageItems, type) ==
    cardContainer' =
        [className |-> IF type = "episodes" THEN "container episodes" ELSE "container",
         items |-> IF RenderThrows(pageItems, type) THEN CardsBeforeThrow(pageItems, type)
                   ELSE pageItems]

\* displayPage(items, type); currentPage' and itemsPerPage' are set by the caller.
\* When the rendering throws, createPagination is not reached.
displayPage(items, type) ==
    LET pageItems == PageItems(items, currentPage', itemsPerPage')
    IN  /\ renderPage(pageItems, type)
        /\ IF RenderThrows(pageItems, type)
           THEN UNCHANGED <<currentDisplayList, totalPages, currentType,
                            paginationContainer>>
           ELSE createPagination(items, type)

\* makePageFor... without the reset of currentPage.
FirstPage_NoReset == currentPage

\* The page makePageForShows / makePageForEpisodes start from.
FirstPage == 1

\* makePageForShows showing the current list again instead of its argument.
makePageForShows_KeepList(listOfShows) ==
    /\ currentPage' = FirstPage
    /\ displayPage(currentDisplayList, "shows")

\* makePageForShows(listOfShows); itemsPerPage' is set by the caller.  (searchCounter
\* writes the text of a counter element, which nothing reads back.)
makePageForShows(listOfShows) ==
    /\ currentPage' = FirstPage
    /\ displayPage(listOfShows, "shows")

\* makePageForEpisodes(listOfApi) for an array; itemsPerPage' is set by the caller.
makePageForEpisodes(listOfApi) ==
    /\ currentPage' = FirstPage
    /\ displayPage(listOfApi, "episodes")

\* makePageForEpisodes(stateData.allEpisodes) when allEpisodes is not an array:
\* currentPage is reset; then, for null, list.length throws in searchCounter;
\* for an object, items.slice throws in displayPage; for a string, slice gives
\* the string, renderEpisodesPage empties the container and episodes.forEach
\* throws.
makePageForEpisodesThrows(json) ==
    /\ currentPage' = FirstPage
    /\ cardContainer' =
           IF json.type = "string"
           THEN [className |-> "container episodes", items |-> <<>>]
           ELSE cardContainer
    /\ UNCHANGED <<totalPages, currentDisplayList, currentType, paginationContainer>>

\* makePageForEpisodes(stateData.allEpisodes): an array is paginated; so is the
\* empty string, whose length is 0 and whose slice is empty.
makePageForAllEpisodes(json) ==
    IF json.type \in {"array", "emptystring"}
    THEN makePageForEpisodes(json.items)
    ELSE makePageForEpisodesThrows(json)

\* A switch that renders an empty grid.
switchToShowsView_Empty ==
    /\ view' = "shows"
    /\ makePageForShows(<<>>)

\* switchToShowsView()
switchToShowsView ==
    /\ view' = "shows"
    /\ makePageForShows(allShows')

\* ------------------------------------------------------------------ setup

Init ==
    /\ allShows = <<>>
    /\ allEpisodes = JArray(<<>>)
    /\ fetchCache = <<>>
    /\ currentShowId = null
    /\ episodeCounter = 0
    /\ view = "shows"
    /\ value = <<>>
    /\ currentPage = 1
    /\ itemsPerPage = DefaultItemsPerPage
    /\ totalPages = 1
    /\ currentDisplayList = <<>>
    /\ currentType = "shows"
    /\ setupPc = "onload"
    /\ page = 0
    /\ all = <<>>
    /\ data = NoData
    /\ pageRequests = <<>>
    /\ episodeRequests = 0
    /\ inflight = [s \in ShowIds |-> 0]
    /\ statusMessages = <<>>
    /\ dDBAllShows = [options |-> <<>>, value |-> NoValue]
    /\ dropDownBoxFill = [options |-> <<>>, value |-> NoValue]
    /\ cardContainer = [className |-> "container", items |-> <<>>]
    /\ paginationContainer = NoControls

\* Insertion that puts x before the shows of the same lower-cased name.
RECURSIVE InsertByName_Unstable(_, _)
InsertByName_Unstable(x, sorted) ==
    IF sorted = <<>> THEN <<x>>
    ELSE IF localeCompare(toLowerCase(Show(sorted[Len(sorted)]).name),
                          toLowerCase(Show(x).name)) < 0
         THEN Append(sorted, x)
         ELSE Append(InsertByName_Unstable(x, SubSeq(sorted, 1, Len(sorted) - 1)),
                     sorted[Len(sorted)])

\* Stable insertion of show x into a list sorted by lower-cased name.
RECURSIVE InsertByName(_, _)
InsertByName(x, sorted) ==
    IF sorted = <<>> THEN <<x>>
    ELSE IF localeCompare(toLowerCase(Show(sorted[Len(sorted)]).name),
                          toLowerCase(Show(x).name)) <= 0
         THEN Append(sorted, x)
         ELSE Append(InsertByName(x, SubSeq(sorted, 1, Len(sorted) - 1)),
                     sorted[Len(sorted)])

\* all.sort((a, b) => a.name.toLowerCase().localeCompare(b.name.toLowerCase()))
RECURSIVE SortByName(_)
SortByName(list) ==
    IF list = <<>> THEN <<>>
    ELSE InsertByName(list[Len(list)], SortByName(SubSeq(list, 1, Len(list) - 1)))

\* dropBoxAllShows(allShows): the options; the first one becomes the selected one.
ShowOptions(list) == [options |-> <<allShows_option>> \o list, value |-> allShows_option]

\* dropBoxFill(episodes)
EpisodeOptions(list) == [options |-> <<all_option>> \o list, value |-> all_option]

\* A cache that is never hit.
has_Never(cache, url) == FALSE

\* stateData.fetchCache.has(url)
has(cache, url) == url \in DOMAIN cache

\* stateData.fetchCache.set(url, data)
CachePut(cache, n, body) ==
    [k \in DOMAIN cache \cup {n} |-> IF k = n THEN body ELSE cache[k]]

\* The outcomes of fetch(url) and res.json() in fetchWithCache: "ok" (status 200,
\* the server's page), "empty" (200, an empty array), "object" (200, a JSON
\* object), "null" (200, JSON null: data.length throws), "notok", "neterr".
PageResponseKinds == {"ok", "empty", "object", "null", "notok", "neterr"}

\* The outcomes with which fetchWithCache reaches fetchCache.set and returns.
Resolves(kind) == kind \in {"ok", "empty", "object"}

\* The decoded body of a response to GET /shows?page=n.
PageBody(kind, n) ==
    IF kind = "ok" THEN JArray(ServerPage(n))
    ELSE IF kind = "empty" THEN JArray(<<>>)
    ELSE JObject

\* A cache that keeps whatever the call ends with, a failure included.
CacheAfterFetch_Always(cache, url, kind, body) == CachePut(cache, url, body)

\* The cache when fetchWithCache(url) is done after a miss.
CacheAfterFetch(cache, url, kind, body) ==
    IF Resolves(kind) THEN CachePut(cache, url, body) ELSE cache

\* What fetchWithCache(url) hands to its caller after a miss.
FetchOutcome(kind, body) == IF Resolves(kind) THEN body ELSE Thrown

\* getPage going on after any body that was returned.
GoesOn_AnyBody(got) == got.type /= "thrown"

\* getPage does not stop at its first return: data is an array and not empty.
GoesOn(got) == got.type = "array" /\ Len(got.items) /= 0

\* An accumulator that keeps the latest page only.
push_Replace(list, items) == items

\* all.push(...data)
push(list, items) == list \o items

\* A limit that lets page maxPages through.
UnderLimit_Inclusive(p) == p + 1 <= maxPages

\* page + 1 < maxPages
UnderLimit(p) == p + 1 < maxPages

\* window.onload = setup: fetchAllShows() calls getPage(0), whose fetchWithCache
\* misses the empty cache and issues the request.
SetupStart ==
    /\ setupPc = "onload"
    /\ ~has(fetchCache, page)
    /\ setupPc' = "awaitPage"
    /\ pageRequests' = Append(pageRequests, page)
    /\ UNCHANGED <<dataVars, searchVars, paginationVars, page, all, data,
                   episodeRequests, inflight, domVars>>

\* fetchAllShows returns: the rest of setup() runs (sort, dropdown, shows view,
\* listeners).
SetupFinish(list, cache) ==
    /\ allShows' = SortByName(list)
    /\ fetchCache' = cache
    /\ setupPc' = "ready"
    /\ all' = <<>>
    /\ data' = NoData
    /\ page' = page
    /\ pageRequests' = pageRequests
    /\ dDBAllShows' = ShowOptions(allShows')
    /\ itemsPerPage' = itemsPerPage
    /\ switchToShowsView
    /\ UNCHANGED <<allEpisodes, currentShowId, episodeCounter, value,
                   episodeRequests, inflight, statusMessages, dropDownBoxFill>>

\* getPage(page) goes on to page + 1: fetchWithCache misses and issues the request.
SetupNextPage(list, cache) ==
    /\ ~has(cache, page + 1)
    /\ all' = list
    /\ data' = NoData
    /\ fetchCache' = cache
    /\ page' = page + 1
    /\ pageRequests' = Append(pageRequests, page + 1)
    /\ UNCHANGED <<allShows, allEpisodes, currentShowId, episodeCounter, searchVars,
                   paginationVars, setupPc, episodeRequests, inflight, domVars>>

\* The response to the outstanding catalog request arrives: fetchWithCache and
\* getPage resume.
PageResponse(kind) ==
    /\ setupPc = "awaitPage"
    /\ LET body == PageBody(kind, page)
           got == FetchOutcome(kind, body)
           cache == CacheAfterFetch(fetchCache, page, kind, body)
       IN  IF GoesOn(got)
           THEN IF UnderLimit(page)
                THEN SetupNextPage(push(all, got.items), cache)
                ELSE SetupFinish(push(all, got.items), cache)
           ELSE SetupFinish(all, cache)

\* -------------------------------------------------------- episode loading

\* document.body.prepend(waitLoadMessage)
Prepend(msg, msgs) == <<msg>> \o msgs

\* document.getElementById("status-message").remove(): the first one in the document
RemoveFirst(msgs) == IF msgs = <<>> THEN msgs ELSE Tail(msgs)

\* the .catch handler: the first status message, if any, gets the failure text
MarkFailed(msgs) == IF msgs = <<>> THEN msgs ELSE <<"failed">> \o Tail(msgs)

\* A fetch that is not issued while a request for the show is outstanding.
Sent_Once(requests, showId) == [requests EXCEPT ![showId] = 1]

\* fetch(`https://api.tvmaze.com/shows/${showId}/episodes`): one more request for
\* the episodes of the show is outstanding.
Sent(requests, showId) == [requests EXCEPT ![showId] = @ + 1]

\* fetchEpisodesByShowId(showId) up to the fetch() call: the request is issued.
fetchEpisodesByShowId(showId) ==
    /\ episodeRequests < MaxEpisodeFetches
    /\ currentShowId' = showId
    /\ statusMessages' = Prepend("loading", statusMessages)
    /\ episodeRequests' = episodeRequests + 1
    /\ inflight' = Sent(inflight, showId)

\* The view switchToEpisodesView() sets.
switchToEpisodesView == view' = "episodes"

\* The "Watch Show" button of the card of show s (renderShowsPage).
ShowCardClick(s) ==
    /\ setupPc = "ready"
    /\ cardContainer.className = "container"
    /\ \E i \in DOMAIN cardContainer.items : cardContainer.items[i] = s
    /\ dDBAllShows' = [dDBAllShows EXCEPT !.value = s]
    /\ fetchEpisodesByShowId(s)
    /\ switchToEpisodesView
    /\ UNCHANGED <<allShows, allEpisodes, fetchCache, episodeCounter, value,
                   paginationVars, setupVars, pageRequests, dropDownBoxFill,
                   cardContainer, paginationContainer>>

\* handleShowDropDownChange with a show id selected
ShowDropDownSelect(s) ==
    /\ dDBAllShows' = [dDBAllShows EXCEPT !.value = s]
    /\ fetchEpisodesByShowId(s)
    /\ UNCHANGED <<allShows, allEpisodes, fetchCache, episodeCounter, searchVars,
                   paginationVars, setupVars, pageRequests, dropDownBoxFill,
                   cardContainer, paginationContainer>>

\* handleShowDropDownChange with "allShows" selected
ShowDropDownAllShows ==
    /\ dDBAllShows' = [dDBAllShows EXCEPT !.value = allShows_option]
    /\ UNCHANGED <<dataVars, value, itemsPerPage, setupVars, netVars, statusMessages,
                   dropDownBoxFill>>
    /\ switchToShowsView

\* handleShowDropDownChange(event): event.target.value = v.  The select raises
\* a change event when the user picks an option other than the selected one.
handleShowDropDownChange(v) ==
    /\ setupPc = "ready"
    /\ \E i \in DOMAIN dDBAllShows.options : dDBAllShows.options[i] = v
    /\ v /= dDBAllShows.value
    /\ IF v = allShows_option THEN ShowDropDownAllShows ELSE ShowDropDownSelect(v)

\* The second .then of fetchEpisodesByShowId with an array body.
\* When dropBoxFill throws at formatEpisodeCode, the options added so far
\* stay, makePageForEpisodes is not reached and the .catch handler runs.
EpisodesLoaded(episodes) ==
    /\ allEpisodes' = JArray(episodes)
    /\ episodeCounter' = Len(episodes)
    /\ itemsPerPage' = itemsPerPage
    /\ IF SelectSeq(episodes, OptionThrows) /= <<>>
       THEN /\ statusMessages' = MarkFailed(RemoveFirst(statusMessages))
            /\ dropDownBoxFill' = EpisodeOptions(OptionsBeforeThrow(episodes))
            /\ UNCHANGED <<currentPage, totalPages, currentDisplayList, currentType,
                           cardContainer, paginationContainer>>
       ELSE /\ statusMessages' = RemoveFirst(statusMessages)
            /\ dropDownBoxFill' = EpisodeOptions(episodes)
            /\ makePageForEpisodes(episodes)
    /\ UNCHANGED <<allShows, fetchCache, currentShowId, searchVars, setupVars,
                   pageRequests, episodeRequests, dDBAllShows>>

\* The second .then with a JSON object as body: state is written, the status
\* message removed, the dropdown emptied, then episodes.forEach throws and the
\* .catch handler runs.
EpisodesBodyObject ==
    /\ allEpisodes' = JObject
    /\ episodeCounter' = undefined
    /\ statusMessages' = MarkFailed(RemoveFirst(statusMessages))
    /\ dropDownBoxFill' = EpisodeOptions(<<>>)
    /\ UNCHANGED <<allShows, fetchCache, currentShowId, searchVars, paginationVars,
                   setupVars, pageRequests, episodeRequests, dDBAllShows, cardContainer,
                   paginationContainer>>

\* The second .then with the JSON body null: allEpisodes is written, then
\* episodes.length throws and the .catch handler runs.
EpisodesBodyNull ==
    /\ allEpisodes' = JNull
    /\ statusMessages' = MarkFailed(statusMessages)
    /\ UNCHANGED <<allShows, fetchCache, currentShowId, episodeCounter, searchVars,
                   paginationVars, setupVars, pageRequests, episodeRequests, dDBAllShows,
                   dropDownBoxFill, cardContainer, paginationContainer>>

\* The second .then with a JSON string as body: state is written with the
\* length of the string, the status message removed, the dropdown emptied, then
\* episodes.forEach throws and the .catch handler runs.
EpisodesBodyString ==
    /\ allEpisodes' = JString
    /\ episodeCounter' = Len(StringBody)
    /\ statusMessages' = MarkFailed(RemoveFirst(statusMessages))
    /\ dropDownBoxFill' = EpisodeOptions(<<>>)
    /\ UNCHANGED <<allShows, fetchCache, currentShowId, searchVars, paginationVars,
                   setupVars, pageRequests, episodeRequests, dDBAllShows, cardContainer,
                   paginationContainer>>

\* The second .then with a body that has a length but no forEach, the empty
\* string or an object with a length property: state is written with that
\* length, the status message removed, the dropdown emptied, then
\* episodes.forEach throws and the .catch handler runs.
EpisodesBodyWithLength(json) ==
    /\ allEpisodes' = json
    /\ episodeCounter' = length(json)
    /\ statusMessages' = MarkFailed(RemoveFirst(statusMessages))
    /\ dropDownBoxFill' = EpisodeOptions(<<>>)
    /\ UNCHANGED <<allShows, fetchCache, currentShowId, searchVars, paginationVars,
                   setupVars, pageRequests, episodeRequests, dDBAllShows, cardContainer,
                   paginationContainer>>

\* The .catch handler after a rejected fetch, a non-ok status or a body that is
\* not JSON.
EpisodesFailed ==
    /\ statusMessages' = MarkFailed(statusMessages)
    /\ UNCHANGED <<dataVars, searchVars, paginationVars, setupVars, pageRequests,
                   episodeRequests, dDBAllShows, dropDownBoxFill, cardContainer,
                   paginationContainer>>

EpisodeResponseKinds ==
    {"ok", "special", "absent", "object", "lengthobject", "null", "string",
     "emptystring", "notok", "neterr", "notjson"}

\* The response to an outstanding episode request of show s arrives and the
\* promise chain of fetchEpisodesByShowId runs.
EpisodesResponse(s, kind) ==
    /\ inflight[s] > 0
    /\ inflight' = [inflight EXCEPT ![s] = @ - 1]
    /\ IF kind = "ok" THEN EpisodesLoaded(ServerEpisodes(s))
       ELSE IF kind = "special" THEN EpisodesLoaded(ServerEpisodesWithSpecial(s))
       ELSE IF kind = "absent" THEN EpisodesLoaded(ServerEpisodesWithAbsentFields(s))
       ELSE IF kind = "object" THEN EpisodesBodyObject
       ELSE IF kind = "lengthobject" THEN EpisodesBodyWithLength(JLengthObject)
       ELSE IF kind = "emptystring" THEN EpisodesBodyWithLength(JEmptyString)
       ELSE IF kind = "null" THEN EpisodesBodyNull
       ELSE IF kind = "string" THEN EpisodesBodyString
       ELSE EpisodesFailed

\* ----------------------------------------------------------------- search

\* A callback that looks at the name only.
ShowMatches_NameOnly(s, searchValue) == includes(toLowerCase(Show(s).name), searchValue)

\* The callback of stateData.allShows.filter in handleShowSearchEvent.
ShowMatches(s, searchValue) ==
    \/ includes(toLowerCase(Show(s).name), searchValue)
    \/ includes(IF Show(s).hasSummary THEN toLowerCase(Show(s).summary) ELSE <<>>,
                searchValue)
    \/ includes(IF Show(s).hasGenres THEN toLowerCase(join(Show(s).genres, <<" ">>))
                ELSE <<>>,
                searchValue)

\* A filter that also leaves out its first match.
FilterShows_DropFirst(list, searchValue) ==
    IF SelectSeq(list, LAMBDA s : ShowMatches(s, searchValue)) = <<>> THEN <<>>
    ELSE Tail(SelectSeq(list, LAMBDA s : ShowMatches(s, searchValue)))

FilterShows(list, searchValue) == SelectSeq(list, LAMBDA s : ShowMatches(s, searchValue))

\* The callback of allEpisodes.filter in searchEpisodes.
EpisodeMatches(e, searchValue) ==
    \/ includes(toLowerCase(Episode(e).name), toLowerCase(searchValue))
    \/ includes(IF Episode(e).hasSummary THEN toLowerCase(Episode(e).summary) ELSE <<>>,
                toLowerCase(searchValue))

\* A filter that returns its matches last to first.
FilterEpisodes_Reversed(list, searchValue) ==
    [i \in 1..Len(SelectSeq(list, LAMBDA e : EpisodeMatches(e, searchValue))) |->
        SelectSeq(list, LAMBDA e : EpisodeMatches(e, searchValue))[
            Len(SelectSeq(list, LAMBDA e : EpisodeMatches(e, searchValue))) + 1 - i]]

FilterEpisodes(list, searchValue) ==
    IF searchValue /= <<>>
    THEN SelectSeq(list, LAMBDA e : EpisodeMatches(e, searchValue))
    ELSE list

\* event.target.value.toLowerCase().trim()
SearchValue(raw) == trim(toLowerCase(raw))

\* handleShowSearchEvent without the test of the view.
handleShowSearchEvent_AnyView(raw) ==
    /\ setupPc = "ready"
    /\ value' = SearchValue(raw)
    /\ UNCHANGED <<dataVars, view, itemsPerPage, setupVars, netVars, statusMessages,
                   dDBAllShows, dropDownBoxFill>>
    /\ IF value' = <<>>
       THEN makePageForShows(allShows)
       ELSE makePageForShows(FilterShows(allShows, SearchValue(raw)))

\* handleShowSearchEvent(event): event.target.value = raw
handleShowSearchEvent(raw) ==
    /\ setupPc = "ready"
    /\ value' = SearchValue(raw)
    /\ UNCHANGED <<dataVars, view, itemsPerPage, setupVars, netVars, statusMessages,
                   dDBAllShows, dropDownBoxFill>>
    /\ IF view = "shows"
       THEN IF value' = <<>>
            THEN makePageForShows(allShows)
            ELSE makePageForShows(FilterShows(allShows, SearchValue(raw)))
       ELSE UNCHANGED <<currentPage, totalPages, currentDisplayList, currentType,
                        cardContainer, paginationContainer>>

\* document.getElementById("dropDownBoxFill").value = "all"
SetToAll(select) ==
    [select EXCEPT !.value =
        IF \E i \in DOMAIN select.options : select.options[i] = all_option
        THEN all_option ELSE NoValue]

\* handleEpisodeSearchEvent(event): event.target.value = raw
handleEpisodeSearchEvent(raw) ==
    /\ setupPc = "ready"
    /\ value' = SearchValue(raw)
    /\ UNCHANGED <<dataVars, view, itemsPerPage, setupVars, netVars, statusMessages,
                   dDBAllShows>>
    /\ IF view = "episodes"
       THEN IF value' = <<>>
            THEN /\ dropDownBoxFill' = SetToAll(dropDownBoxFill)
                 /\ makePageForAllEpisodes(allEpisodes)
            ELSE /\ dropDownBoxFill' = dropDownBoxFill
                 /\ IF allEpisodes.type = "array"
                    THEN makePageForEpisodes(FilterEpisodes(allEpisodes.items, SearchValue(raw)))
                    ELSE UNCHANGED <<currentPage, totalPages, currentDisplayList,
                                     currentType, cardContainer, paginationContainer>>
       ELSE UNCHANGED <<currentPage, totalPages, currentDisplayList, currentType,
                        cardContainer, paginationContainer, dropDownBoxFill>>

\* stateData.allEpisodes.filter((ep) => ep.id == selectedId)
EpisodesWithId(list, selectedId) == SelectSeq(list, LAMBDA e : Episode(e).id = selectedId)

\* handleEpisodeDropDownChange(event): event.target.value = v.  The select
\* raises a change event when the user picks an option other than the selected
\* one.
handleEpisodeDropDownChange(v) ==
    /\ setupPc = "ready"
    /\ \E i \in DOMAIN dropDownBoxFill.options : dropDownBoxFill.options[i] = v
    /\ v /= dropDownBoxFill.value
    /\ dropDownBoxFill' = [dropDownBoxFill EXCEPT !.value = v]
    /\ UNCHANGED <<dataVars, searchVars, itemsPerPage, setupVars, netVars,
                   statusMessages, dDBAllShows>>
    /\ IF v = all_option
       THEN makePageForAllEpisodes(allEpisodes)
       ELSE IF allEpisodes.type = "array"
            THEN makePageForEpisodes(EpisodesWithId(allEpisodes.items, v))
            ELSE UNCHANGED <<currentPage, totalPages, currentDisplayList, currentType,
                             cardContainer, paginationContainer>>

\* A back action that reloads an empty catalog.
BackToShows_DropsCatalog ==
    /\ setupPc = "ready"
    /\ allShows' = <<>>
    /\ UNCHANGED <<allEpisodes, fetchCache, currentShowId, episodeCounter, value,
                   itemsPerPage, setupVars, netVars, statusMessages, dDBAllShows,
                   dropDownBoxFill>>
    /\ switchToShowsView

\* The click listener of backToShows.
BackToShows ==
    /\ setupPc = "ready"
    /\ UNCHANGED <<dataVars, value, itemsPerPage, setupVars, netVars, statusMessages,
                   dDBAllShows, dropDownBoxFill>>
    /\ switchToShowsView

\* ------------------------------------------------------ pagination events

\* What no pagination listener touches.
paginationKept ==
    <<dataVars, searchVars, setupVars, netVars, statusMessages, dDBAllShows,
      dropDownBoxFill>>

\* A click on the Previous button: a disabled button (prevBtn.disabled, set
\* when it was rendered on page 1) raises no click event; otherwise the click
\* listener runs.
PrevClick ==
    /\ paginationContainer.controls
    /\ itemsPerPage' = itemsPerPage
    /\ IF ~paginationContainer.prevDisabled /\ currentPage > 1
       THEN /\ currentPage' = currentPage - 1
            /\ displayPage(currentDisplayList, currentType)
       ELSE UNCHANGED <<currentPage, totalPages, currentDisplayList, currentType,
                        cardContainer, paginationContainer>>
    /\ UNCHANGED paginationKept

\* A click on the Next button: a disabled button (nextBtn.disabled, set when it
\* was rendered on the last page) raises no click event; otherwise the click
\* listener runs.
NextClick ==
    /\ paginationContainer.controls
    /\ itemsPerPage' = itemsPerPage
    /\ IF ~paginationContainer.nextDisabled /\ currentPage < totalPages
       THEN /\ currentPage' = currentPage + 1
            /\ displayPage(currentDisplayList, currentType)
       ELSE UNCHANGED <<currentPage, totalPages, currentDisplayList, currentType,
                        cardContainer, paginationContainer>>
    /\ UNCHANGED paginationKept

\* The click listener of the button of page i.
PageNumberClick(i) ==
    /\ paginationContainer.controls
    /\ i \in paginationContainer.pages
    /\ itemsPerPage' = itemsPerPage
    /\ currentPage' = i
    /\ displayPage(currentDisplayList, currentType)
    /\ UNCHANGED paginationKept

\* The page the change listener of the items-per-page selector goes to.
PageAfterResize(cp) == 1

\* The change listener of the items-per-page selector: parseInt(e.target.value) = n
\* The select raises a change event when the user picks an option other than
\* the selected one.  When the rendering throws, createPagination is not
\* reached and the select keeps the option the user picked.
ItemsPerPageChange(n) ==
    /\ paginationContainer.controls
    /\ n /= paginationContainer.selected
    /\ itemsPerPage' = n
    /\ currentPage' = PageAfterResize(currentPage)
    /\ LET pageItems == PageItems(currentDisplayList, currentPage', n)
       IN  /\ renderPage(pageItems, currentType)
           /\ IF RenderThrows(pageItems, currentType)
              THEN /\ paginationContainer' = [paginationContainer EXCEPT !.selected = n]
                   /\ UNCHANGED <<currentDisplayList, totalPages, currentType>>
              ELSE createPagination(currentDisplayList, currentType)
    /\ UNCHANGED paginationKept

\* ---------------------------------------------------------- specification

Next ==
    \/ SetupStart
    \/ \E kind \in PageResponseKinds : PageResponse(kind)
    \/ \E s \in SelectedShows : ShowCardClick(s)
    \/ \E v \in SelectedShows \cup {allShows_option} : handleShowDropDownChange(v)
    \/ \E s \in ShowIds :
           inflight[s] > 0 /\ \E kind \in EpisodeResponseKinds : EpisodesResponse(s, kind)
    \/ \E raw \in SearchInputs : handleShowSearchEvent(raw)
    \/ \E raw \in SearchInputs : handleEpisodeSearchEvent(raw)
    \/ \E v \in PickedEpisodes : handleEpisodeDropDownChange(v)
    \/ BackToShows
    \/ PrevClick
    \/ NextClick
    \/ \E i \in paginationContainer.pages : PageNumberClick(i)
    \/ \E n \in PageSizes : ItemsPerPageChange(n)

Spec == Init /\ [][Next]_vars

\* ------------------------------------------------ fetchWithCache on its own

(***************************************************************************)
(* The script calls fetchWithCache once per catalog page, so it never asks  *)
(* for a URL twice.  CacheSpec is fetchWithCache under a caller that asks   *)
(* for any of a few URLs again and again, each call awaited before the next *)
(* (as getPage awaits its calls), against a server whose answer to a URL    *)
(* may differ from one request to the next.  A URL is its page number;      *)
(* page is the url of the call, data what the call handed back.             *)
(***************************************************************************)

\* The URLs the caller asks for.
CacheUrls == {0, 1, 9}

CacheInit ==
    /\ allShows = <<>>
    /\ allEpisodes = JArray(<<>>)
    /\ fetchCache = <<>>
    /\ currentShowId = null
    /\ episodeCounter = 0
    /\ view = "shows"
    /\ value = <<>>
    /\ currentPage = 1
    /\ itemsPerPage = DefaultItemsPerPage
    /\ totalPages = 1
    /\ currentDisplayList = <<>>
    /\ currentType = "shows"
    /\ setupPc = "caller"
    /\ page = 0
    /\ all = <<>>
    /\ data = NoData
    /\ pageRequests = <<>>
    /\ episodeRequests = 0
    /\ inflight = [s \in ShowIds |-> 0]
    /\ statusMessages = <<>>
    /\ dDBAllShows = [options |-> <<>>, value |-> NoValue]
    /\ dropDownBoxFill = [options |-> <<>>, value |-> NoValue]
    /\ cardContainer = [className |-> "container", items |-> <<>>]
    /\ paginationContainer = NoControls

\* What a fetchWithCache call leaves alone.
cacheKept ==
    <<allShows, allEpisodes, currentShowId, episodeCounter, searchVars, paginationVars,
      all, episodeRequests, inflight, domVars>>

\* fetchWithCache(url) up to its return (hit) or to its await of fetch(url) (miss).
fetchWithCache(url) ==
    /\ setupPc = "caller"
    /\ page' = url
    /\ IF has(fetchCache, url)
       THEN /\ data' = fetchCache[url]
            /\ UNCHANGED <<setupPc, pageRequests>>
       ELSE /\ Len(pageRequests) < MaxCacheRequests
            /\ data' = NoData
            /\ setupPc' = "awaitFetch"
            /\ pageRequests' = Append(pageRequests, url)
    /\ UNCHANGED <<fetchCache, cacheKept>>

\* fetch(url) settles and fetchWithCache runs to its return or throw.
fetchWithCacheSettles(kind) ==
    /\ setupPc = "awaitFetch"
    /\ setupPc' = "caller"
    /\ fetchCache' = CacheAfterFetch(fetchCache, page, kind, PageBody(kind, page))
    /\ data' = FetchOutcome(kind, PageBody(kind, page))
    /\ UNCHANGED <<page, pageRequests, cacheKept>>

CacheNext ==
    \/ \E url \in CacheUrls : fetchWithCache(url)
    \/ \E kind \in PageResponseKinds : fetchWithCacheSettles(kind)

CacheSpec == CacheInit /\ [][CacheNext]_vars

\* ------------------------------------------------- the filters on their own

(***************************************************************************)
(* FilterSpec runs the two search handlers on lists the catalog viewer      *)
(* does not produce by itself: any short list of records, repeated records *)
(* and a show without genres included.  allShows (allEpisodes) is the list *)
(* the handler filters, value the query it stores; the handler hands the   *)
(* filtered list to makePageForShows (makePageForEpisodes), which renders  *)
(* it and makes it currentDisplayList.                                      *)
(***************************************************************************)

\* The shows the lists are made of: "A" (no summary, no genre), "ba" (summary
\* "a c"), "ca" (summary "A", genres b and a), "bc" (no summary, no genres field).
FilterShowIds == {2, 5, 12, 13}

\* The episodes the lists are made of: "Ab", "b" (summary "Bc"), "ca".
FilterEpisodeIds == {EpisodeId(1, 1), EpisodeId(1, 2), EpisodeId(1, 3)}

\* What is typed into the search input.
FilterInputs ==
    { <<>>, <<" ">>, <<"A", " ">>, <<"B">>, <<"C">>, <<"b", " ", "a">> }

\* The lists of at most MaxListLen elements of S.
ListsOver(S) == UNION {[1..n -> S] : n \in 0..MaxListLen}

FilterInit ==
    /\ \/ /\ view = "shows"
          /\ allShows \in ListsOver(FilterShowIds)
          /\ allEpisodes = JArray(<<>>)
          /\ currentDisplayList = allShows
       \/ /\ view = "episodes"
          /\ allShows = <<>>
          /\ allEpisodes \in {JArray(l) : l \in ListsOver(FilterEpisodeIds)}
          /\ currentDisplayList = allEpisodes.items
    /\ currentType = view
    /\ value = <<>>
    /\ fetchCache = <<>>
    /\ currentShowId = null
    /\ episodeCounter = 0
    /\ currentPage = 1
    /\ itemsPerPage = DefaultItemsPerPage
    /\ totalPages = 1
    /\ setupPc = "ready"
    /\ page = 0
    /\ all = <<>>
    /\ data = NoData
    /\ pageRequests = <<>>
    /\ episodeRequests = 0
    /\ inflight = [s \in ShowIds |-> 0]
    /\ statusMessages = <<>>
    /\ dDBAllShows = [options |-> <<>>, value |-> NoValue]
    /\ dropDownBoxFill = [options |-> <<>>, value |-> NoValue]
    /\ cardContainer = [className |-> "container", items |-> <<>>]
    /\ paginationContainer = NoControls

FilterNext ==
    \/ \E raw \in FilterInputs : handleShowSearchEvent(raw)
    \/ \E raw \in FilterInputs : handleEpisodeSearchEvent(raw)

FilterSpec == FilterInit /\ [][FilterNext]_vars

\* ----------------------------------------------------------------- claims

\* The episode list of show s is the one stateData holds.
LoadedFor(s) == s \in ShowIds /\ allEpisodes = JArray(ServerEpisodes(s))

\* An episode request of show s is outstanding.
Pending(s) == s \in ShowIds /\ inflight[s] > 0

\* The responses that carry a list of episodes, and the list they carry.
SuccessKinds == {"ok", "special", "absent"}

ServedEpisodes(s, kind) ==
    IF kind = "special" THEN ServerEpisodesWithSpecial(s)
    ELSE IF kind = "absent" THEN ServerEpisodesWithAbsentFields(s)
    ELSE ServerEpisodes(s)

FailureKinds == EpisodeResponseKinds \ SuccessKinds

\* allEpisodes is an array of episodes that renderEpisodesPage renders.
EpisodesRender ==
    /\ allEpisodes.type = "array"
    /\ SelectSeq(allEpisodes.items, EpisodeCardThrows) = <<>>

\* C1: a successful response for a show that is no longer the selected one (a
\* later selection was made while it was in flight) alters neither allEpisodes
\* nor currentShowId, and the response for the selected show leaves currentShowId
\* at that show with allEpisodes its episode list.
C1_StaleResponseIgnored ==
    [][\A s \in ShowIds :
          EpisodesResponse(s, "ok") =>
              IF s /= currentShowId
              THEN allEpisodes' = allEpisodes /\ currentShowId' = currentShowId
              ELSE currentShowId' = s /\ allEpisodes' = JArray(ServerEpisodes(s))]_vars

\* C2: the view is 'episodes' only when the episode fetch of the selected show
\* has succeeded, so a selection whose fetch fails (or has not answered) leaves
\* the view at 'shows'.
C2_EpisodesViewOnlyAfterSuccess == view = "episodes" => LoadedFor(currentShowId)

\* C3: when the episode fetch of a selected show succeeds, the view becomes
\* 'episodes', allEpisodes is the fetched list and the pagination source is that
\* list, whether the show was selected by card or by dropdown.
C3_SuccessLeadsToEpisodesView ==
    [][\A s \in ShowIds :
          EpisodesResponse(s, "ok") =>
              /\ view' = "episodes"
              /\ allEpisodes' = JArray(ServerEpisodes(s))
              /\ currentDisplayList' = ServerEpisodes(s)]_vars

\* C4: selecting a show (card or dropdown) does not change currentShowId; only
\* the success of the selection's fetch does.
C4_SelectionKeepsCurrentShowId ==
    [][\A s \in ShowIds :
          (ShowCardClick(s) \/ handleShowDropDownChange(s)) =>
              currentShowId' = currentShowId]_vars

\* C5: a failed episode load (non-ok status, network error, malformed body)
\* leaves allEpisodes and episodeCounter as they were.
C5_FailureKeepsEpisodes ==
    [][\A s \in ShowIds, kind \in FailureKinds :
          EpisodesResponse(s, kind) =>
              allEpisodes' = allEpisodes /\ episodeCounter' = episodeCounter]_vars

\* C6: in the episodes view allEpisodes is the list fetched for currentShowId,
\* or a fetch for currentShowId is still pending.
C6_EpisodesViewReflectsShow ==
    view = "episodes" => (LoadedFor(currentShowId) \/ Pending(currentShowId))

\* C7: currentPage stays within 1 .. max(1, totalPages), and once setup has run
\* totalPages is ceil(len(currentDisplayList) / itemsPerPage).
C7_PageWithinBounds ==
    /\ 1 <= currentPage
    /\ currentPage <= Max(1, totalPages)
    /\ setupPc = "ready" => totalPages = CeilDiv(Len(currentDisplayList), itemsPerPage)

\* A step of an operation that installs a list as the pagination source.
InstallsSource ==
    \/ \E raw \in SearchInputs : view = "shows" /\ handleShowSearchEvent(raw)
    \/ \E raw \in SearchInputs :
           view = "episodes" /\ EpisodesRender /\ handleEpisodeSearchEvent(raw)
    \/ \E v \in PickedEpisodes :
           EpisodesRender /\ handleEpisodeDropDownChange(v)
    \/ BackToShows
    \/ \E s \in ShowIds : EpisodesResponse(s, "ok")

\* C8: every operation that installs a list as the pagination source (show
\* search, episode search, episode-picker change, back to shows, successful
\* episode load) sets currentPage to 1: a step that leaves currentPage at
\* another page is none of these operations.
C8_SourceChangeResetsPage == [][currentPage' /= 1 => ~InstallsSource]_vars

\* C8 witness: a show search has installed its filtered list while the shows
\* were paginated six to a page.
C8_Witness ==
    /\ view = "shows"
    /\ currentType = "shows"
    /\ value /= <<>>
    /\ itemsPerPage = 6
    /\ Len(allShows) > 6
    /\ currentDisplayList = FilterShows(allShows, value)
    /\ currentPage = 1

\* C9: totalPages is max(1, ceil(len(currentDisplayList) / itemsPerPage)), so it
\* is 1 for an empty list.
C9_TotalPagesAtLeastOne ==
    totalPages = Max(1, CeilDiv(Len(currentDisplayList), itemsPerPage))

\* The slices of pages from .. to of a list, concatenated.
RECURSIVE ConcatPages(_, _, _, _)
ConcatPages(items, ipp, from, to) ==
    IF from > to THEN <<>>
    ELSE PageItems(items, from, ipp) \o ConcatPages(items, ipp, from + 1, to)

\* C10: for the displayed list and every allowed page size, every page slice has
\* at most that many items and the slices of pages 1..totalPages concatenated
\* are the list; the rendered slice has at most itemsPerPage items; a list of 25
\* at 12 per page has 3 pages, the third of 1 item.
C10_SlicesPartitionList ==
    /\ \A ipp \in PageSizes :
          /\ \A p \in 1..TotalPagesOf(currentDisplayList, ipp) :
                 Len(PageItems(currentDisplayList, p, ipp)) <= ipp
          /\ ConcatPages(currentDisplayList, ipp, 1,
                         TotalPagesOf(currentDisplayList, ipp)) = currentDisplayList
    /\ Len(cardContainer.items) <= itemsPerPage
    /\ Len(currentDisplayList) = 25 =>
           /\ TotalPagesOf(currentDisplayList, 12) = 3
           /\ Len(PageItems(currentDisplayList, 3, 12)) = 1

\* C10 witness: page 3 of a list of 25 at 12 per page is rendered, with 1 card.
C10_Witness ==
    /\ Len(currentDisplayList) = 25
    /\ itemsPerPage = 12
    /\ totalPages = 3
    /\ currentPage = 3
    /\ Len(cardContainer.items) = 1

\* displayPage(list, type) renders its page, the one of the next state, without
\* throwing, and so goes on to createPagination.
Rendered(list, type) ==
    ~RenderThrows(PageItems(list, currentPage', itemsPerPage'), type)

\* A step in which displayPage runs to its end, createPagination included.
Renders ==
    \/ \E kind \in PageResponseKinds : PageResponse(kind) /\ setupPc' = "ready"
    \/ handleShowDropDownChange(allShows_option)
    \/ \E s \in ShowIds : EpisodesResponse(s, "ok")
    \/ \E raw \in SearchInputs : view = "shows" /\ handleShowSearchEvent(raw)
    \/ \E raw \in SearchInputs :
           /\ view = "episodes" /\ allEpisodes.type = "array"
           /\ handleEpisodeSearchEvent(raw)
           /\ Rendered(IF SearchValue(raw) = <<>> THEN allEpisodes.items
                       ELSE FilterEpisodes(allEpisodes.items, SearchValue(raw)),
                       "episodes")
    \/ \E v \in PickedEpisodes :
           /\ allEpisodes.type = "array"
           /\ handleEpisodeDropDownChange(v)
           /\ Rendered(IF v = all_option THEN allEpisodes.items
                       ELSE EpisodesWithId(allEpisodes.items, v), "episodes")
    \/ BackToShows
    \/ /\ ~paginationContainer.prevDisabled /\ currentPage > 1
       /\ PrevClick
       /\ Rendered(currentDisplayList, currentType)
    \/ /\ ~paginationContainer.nextDisabled /\ currentPage < totalPages
       /\ NextClick
       /\ Rendered(currentDisplayList, currentType)
    \/ \E i \in paginationContainer.pages :
           PageNumberClick(i) /\ Rendered(currentDisplayList, currentType)
    \/ \E n \in PageSizes :
           ItemsPerPageChange(n) /\ Rendered(currentDisplayList, currentType)

\* The page numbers shown are start..end with start = max(1, currentPage - 2)
\* and end = min(totalPages, start + 4).
WindowShown ==
    LET start == Max(1, currentPage - 2)
        end == Min(totalPages, start + 4)
    IN  /\ paginationContainer.pages = start..end
        /\ currentPage \in paginationContainer.pages
        /\ paginationContainer.pages \subseteq 1..totalPages
        /\ Cardinality(paginationContainer.pages) <= 5

\* C11: whenever createPagination renders page numbers, they are start..end with
\* start = max(1, currentPage - 2) and end = min(totalPages, start + 4); the
\* window contains currentPage, lies within 1..totalPages and has at most 5
\* numbers.  (A step that leaves other page numbers is not a rendering step.)
C11_PageWindow ==
    [][(paginationContainer'.controls /\ ~WindowShown') => ~Renders]_vars

\* C12: itemsPerPage is always one of 6, 12, 24, 48; a page-size change sets
\* currentPage to 1, recomputes totalPages for the new size from the source list,
\* and leaves currentDisplayList, currentType and view as they were.
C12_PageSizeChange ==
    /\ [](itemsPerPage \in PageSizes)
    /\ [][\A n \in PageSizes :
             ItemsPerPageChange(n) =>
                 /\ itemsPerPage' = n
                 /\ currentPage' = 1
                 /\ totalPages' = CeilDiv(Len(currentDisplayList), n)
                 /\ currentDisplayList' = currentDisplayList
                 /\ currentType' = currentType
                 /\ view' = view]_vars

\* The outcomes of fetch and res.json with which fetchWithCache throws.
ThrowKinds == PageResponseKinds \ {"ok", "empty", "object"}

\* C13: a call for a URL that is in the cache hands back the stored payload and
\* issues no request, and no step removes or replaces an entry of the cache.
C13_CacheHit ==
    /\ [][\A url \in CacheUrls :
             (url \in DOMAIN fetchCache /\ fetchWithCache(url)) =>
                 /\ data' = fetchCache[url]
                 /\ pageRequests' = pageRequests]_vars
    /\ [][\A url \in DOMAIN fetchCache :
             url \in DOMAIN fetchCache' /\ fetchCache'[url] = fetchCache[url]]_vars

\* C13 witness: a call for page 9 was answered from the cache, which holds an
\* empty array although the server's page 9 is not empty, and page 9 was
\* requested once.
C13_Witness ==
    /\ setupPc = "caller"
    /\ page = 9
    /\ 9 \in DOMAIN fetchCache
    /\ fetchCache[9] = JArray(<<>>)
    /\ data = fetchCache[9]
    /\ pageRequests = <<9, 0>>

\* C14: a call that fails leaves the cache as it was and throws, and a call
\* for a URL that is not in the cache issues a request for it.
C14_FailureNotCached ==
    /\ [][\A kind \in ThrowKinds :
             fetchWithCacheSettles(kind) =>
                 fetchCache' = fetchCache /\ data' = Thrown]_vars
    /\ [][\A url \in CacheUrls :
             (url \notin DOMAIN fetchCache /\ fetchWithCache(url)) =>
                 pageRequests' = Append(pageRequests, url)]_vars

\* C14 witness: page 1 failed and did not enter the cache, and the next call
\* for page 1 has issued a second request.
C14_Witness ==
    /\ setupPc = "awaitFetch"
    /\ page = 1
    /\ pageRequests = <<1, 1>>
    /\ 1 \notin DOMAIN fetchCache

\* Page n was fetched with status 200 and a non-empty array.
PageSucceeded(n) ==
    /\ n \in DOMAIN fetchCache
    /\ fetchCache[n] = JArray(ServerPage(n))
    /\ ServerPage(n) /= <<>>

\* The catalog requests that have been issued and not answered.
OutstandingPages ==
    {n \in 0..maxPages :
        /\ \E i \in DOMAIN pageRequests : pageRequests[i] = n
        /\ n \notin DOMAIN fetchCache
        /\ setupPc = "awaitPage"}

\* C15: the catalog pages are requested in the order 0, 1, 2, ...; every page
\* requested before the latest one has succeeded with a non-empty array, so page
\* n + 1 is requested only after that and at most one request is outstanding.
C15_SequentialPaging ==
    /\ \A i \in DOMAIN pageRequests : pageRequests[i] = i - 1
    /\ \A i \in DOMAIN pageRequests : i < Len(pageRequests) => PageSucceeded(i - 1)
    /\ Cardinality(OutstandingPages) <= 1

\* C15 witness: the request for page 3 is outstanding, pages 0..2 have succeeded.
C15_Witness ==
    /\ setupPc = "awaitPage"
    /\ pageRequests = <<0, 1, 2, 3>>
    /\ OutstandingPages = {3}
    /\ \A n \in 0..2 : PageSucceeded(n)

\* The records of pages 0 .. n - 1, in fetch order.
RECURSIVE PagesBefore(_)
PagesBefore(n) == IF n = 0 THEN <<>> ELSE PagesBefore(n - 1) \o ServerPage(n - 1)

\* The index of the first page that was empty, not an array, or failed (maxPages
\* when there was none among the pages 0 .. maxPages - 1).
FirstStop == CHOOSE k \in 0..maxPages :
    /\ \A n \in 0..(k - 1) : PageSucceeded(n)
    /\ k < maxPages => ~PageSucceeded(k)

\* Two lists hold the same records.
SameRecords(a, b) ==
    /\ Len(a) = Len(b)
    /\ \A x \in ShowIds :
           Cardinality({i \in DOMAIN a : a[i] = x}) = Cardinality({i \in DOMAIN b : b[i] = x})

\* C16: when fetchAllShows has returned, min(maxPages, k + 1) page requests were
\* issued, k the first page that was empty, not an array or failed, and the
\* result holds exactly the records of the pages before page k.
C16_RequestCount ==
    setupPc = "ready" =>
        /\ Len(pageRequests) = Min(maxPages, FirstStop + 1)
        /\ SameRecords(allShows, PagesBefore(FirstStop))

\* C16 witness: all maxPages pages were non-empty; maxPages requests, 12 shows.
C16_Witness ==
    /\ setupPc = "ready"
    /\ FirstStop = maxPages
    /\ Len(pageRequests) = maxPages
    /\ Len(allShows) = 12

\* C17: when the fetch of page n fails, fetchAllShows still returns, with the
\* records of pages 0 .. n - 1, and issues no request; no page is requested
\* twice, and nothing is requested after fetchAllShows has returned.
C17_FailureStopsPaging ==
    /\ [][\A kind \in ThrowKinds :
             PageResponse(kind) =>
                 /\ setupPc' = "ready"
                 /\ pageRequests' = pageRequests
                 /\ SameRecords(allShows', PagesBefore(page))]_vars
    /\ [](\A i, j \in DOMAIN pageRequests : pageRequests[i] = pageRequests[j] => i = j)
    /\ [][setupPc = "ready" => pageRequests' = pageRequests]_vars

\* C17 witness: page 2 failed; three requests, the 3 shows of pages 0 and 1.
C17_Witness ==
    /\ setupPc = "ready"
    /\ pageRequests = <<0, 1, 2>>
    /\ 2 \notin DOMAIN fetchCache
    /\ Len(allShows) = 3

\* The position of show x in the order the server's pages hold the shows.
ServedShows == PagesBefore(maxPages)

FetchIndex(x) == CHOOSE i \in DOMAIN ServedShows : ServedShows[i] = x

\* C18: the catalog is a permutation of the accumulated records in ascending
\* order of lower-cased name, shows of equal lower-cased name in fetch order.
C18_SortedByName ==
    setupPc = "ready" =>
        /\ SameRecords(allShows, PagesBefore(FirstStop))
        /\ \A i, j \in DOMAIN allShows :
               i < j =>
                   LET c == localeCompare(toLowerCase(Show(allShows[i]).name),
                                          toLowerCase(Show(allShows[j]).name))
                   IN  /\ c <= 0
                       /\ c = 0 => FetchIndex(allShows[i]) < FetchIndex(allShows[j])

\* C18 witness: the full catalog, with its four pairs of names that differ in
\* case only, each pair in fetch order.
C18_Witness ==
    /\ setupPc = "ready"
    /\ allShows = <<3, 2, 7, 4, 8, 6, 1, 5, 11, 9, 10, 12>>

\* C19: the 'back to shows' action leaves view = 'shows' and currentPage = 1,
\* and the pagination source is the full catalog, or the catalog filtered by the
\* stored query when there is one.
C19_BackToShows ==
    [][BackToShows =>
          /\ view' = "shows"
          /\ currentPage' = 1
          /\ currentType' = "shows"
          /\ \/ currentDisplayList' = allShows
             \/ value /= <<>> /\ currentDisplayList' = FilterShows(allShows, value)]_vars

\* C19 witness: back in the shows view after a show was selected by its card,
\* a query that would narrow the catalog still stored, the full catalog shown.
C19_Witness ==
    /\ setupPc = "ready"
    /\ view = "shows"
    /\ currentType = "shows"
    /\ currentShowId /= null
    /\ dDBAllShows.value = currentShowId
    /\ allEpisodes = JArray(ServerEpisodes(currentShowId))
    /\ value /= <<>>
    /\ Len(allShows) = 12
    /\ FilterShows(allShows, value) /= allShows
    /\ currentDisplayList = allShows
    /\ currentPage = 1

\* What displayPage writes.
displayed ==
    <<currentDisplayList, currentPage, totalPages, currentType, cardContainer,
      paginationContainer>>

\* C20: a show-search input while view = 'episodes', and an episode-search
\* input while view = 'shows', leave currentDisplayList, currentPage,
\* totalPages, currentType and the rendered grid as they were.
C20_SearchOnlyInActiveView ==
    [][\A raw \in SearchInputs :
          /\ (view = "episodes" /\ handleShowSearchEvent(raw)) => displayed' = displayed
          /\ (view = "shows" /\ handleEpisodeSearchEvent(raw)) => displayed' = displayed]_vars

\* C20 witness: in the episodes view, on page 2 of the 25 episodes of a show, a
\* query is stored that would narrow the catalog.
C20_Witness ==
    /\ view = "episodes"
    /\ currentType = "episodes"
    /\ value /= <<>>
    /\ Len(currentDisplayList) = 25
    /\ allEpisodes = JArray(currentDisplayList)
    /\ currentPage = 2
    /\ FilterShows(allShows, value) /= allShows

\* The raw inputs that are empty or whitespace only.
BlankInputs == {raw \in SearchInputs : \A i \in DOMAIN raw : raw[i] = " "}

\* C21: a search input that is empty or whitespace only makes the active view
\* display its whole backing list in its order (allShows in the shows view,
\* allEpisodes in the episodes view), and no search input changes allShows or
\* allEpisodes.
C21_BlankQueryShowsAll ==
    /\ [][\A raw \in BlankInputs :
             /\ (view = "shows" /\ handleShowSearchEvent(raw)) =>
                    currentDisplayList' = allShows
             /\ (view = "episodes" /\ handleEpisodeSearchEvent(raw)) =>
                    JArray(currentDisplayList') = allEpisodes]_vars
    /\ [][\A raw \in SearchInputs :
             (handleShowSearchEvent(raw) \/ handleEpisodeSearchEvent(raw)) =>
                 allShows' = allShows /\ allEpisodes' = allEpisodes]_vars

\* The list the show filter gives for the query typed as raw.
ShowSearchResult(raw) == FilterShows(allShows, SearchValue(raw))

\* The first page of list is rendered to the end, so that makePageForShows
\* makes list the currentDisplayList.
ShowsRendered(list) == ~RenderThrows(PageItems(list, FirstPage, itemsPerPage), "shows")

\* C22: filtering the output of the show filter (of the episode filter) again
\* with the same query gives that output.
C22_FilterIdempotent ==
    [][\A raw \in FilterInputs :
          /\ (view = "shows" /\ handleShowSearchEvent(raw)) =>
                 /\ FilterShows(ShowSearchResult(raw), value') = ShowSearchResult(raw)
                 /\ ShowsRendered(ShowSearchResult(raw)) =>
                        /\ currentDisplayList' = ShowSearchResult(raw)
                        /\ FilterShows(currentDisplayList', value') = currentDisplayList'
          /\ (view = "episodes" /\ handleEpisodeSearchEvent(raw)) =>
                 FilterEpisodes(currentDisplayList', value') = currentDisplayList']_vars

\* C22 witness: "b" has narrowed three shows to two, which are displayed.
C22_Witness ==
    /\ view = "shows"
    /\ allShows = <<2, 5, 12>>
    /\ value = <<"b">>
    /\ currentDisplayList = <<5, 12>>
    /\ cardContainer.items = <<5, 12>>

\* The number of times x occurs in list.
Count(x, list) == Cardinality({i \in DOMAIN list : list[i] = x})

\* sub is list with some elements left out.
RECURSIVE IsSubsequence(_, _)
IsSubsequence(sub, list) ==
    IF sub = <<>> THEN TRUE
    ELSE IF list = <<>> THEN FALSE
    ELSE IF Head(sub) = Head(list) THEN IsSubsequence(Tail(sub), Tail(list))
    ELSE IsSubsequence(sub, Tail(list))

\* out is input with some elements left out: not longer, in the same order, no
\* record more often.
FilteredFrom(out, input) ==
    /\ Len(out) <= Len(input)
    /\ IsSubsequence(out, input)
    /\ \A x \in FilterShowIds \cup FilterEpisodeIds : Count(x, out) <= Count(x, input)

\* C23: the output of either filter is its input with some elements left out:
\* not longer, in the same order, no record more often than in the input.
C23_FilterSubsequence ==
    [][\A raw \in FilterInputs :
          /\ (view = "shows" /\ handleShowSearchEvent(raw)) =>
                 /\ FilteredFrom(ShowSearchResult(raw), allShows)
                 /\ ShowsRendered(ShowSearchResult(raw)) =>
                        currentDisplayList' = ShowSearchResult(raw)
                 /\ allShows' = allShows
          /\ (view = "episodes" /\ handleEpisodeSearchEvent(raw)) =>
                 /\ FilteredFrom(currentDisplayList', allEpisodes.items)
                 /\ allEpisodes' = allEpisodes]_vars

\* C23 witness: "c" keeps the first and the third of three episodes, in order.
C23_Witness ==
    /\ view = "episodes"
    /\ allEpisodes = JArray(<<EpisodeId(1, 3), EpisodeId(1, 1), EpisodeId(1, 2)>>)
    /\ value = <<"c">>
    /\ currentDisplayList = <<EpisodeId(1, 3), EpisodeId(1, 2)>>
    /\ cardContainer.items = currentDisplayList

\* Text needle occurs in text hay, letter case ignored.
Occurs(needle, hay) ==
    \E i, j \in 0..Len(hay) :
        toLowerCase(SubSeq(hay, i + 1, j)) = toLowerCase(needle)

\* The show search is to keep show s for query q.
ShowWanted(s, q) ==
    \/ Occurs(q, ShowNames[s])
    \/ ShowHasSummary[s] /\ Occurs(q, ShowSummaries[s])
    \/ ShowHasGenres[s] /\ Occurs(q, join(ShowGenres[s], <<" ">>))

\* The episode search is to keep episode e for query q.
EpisodeWanted(e, q) ==
    \/ Occurs(q, Episode(e).name)
    \/ Episode(e).hasSummary /\ Occurs(q, Episode(e).summary)

\* C24: for a query that is not blank, the show filter keeps exactly the shows
\* whose name, summary or joined genres contain the query, case ignored, and
\* the episode filter exactly the episodes whose name or summary contains it;
\* a missing summary or missing genres count as containing nothing.
C24_FilterKeepsMatches ==
    [][\A raw \in FilterInputs :
          trim(raw) /= <<>> =>
              /\ (view = "shows" /\ handleShowSearchEvent(raw)) =>
                     /\ ShowSearchResult(raw) =
                            SelectSeq(allShows, LAMBDA s : ShowWanted(s, trim(raw)))
                     /\ ShowsRendered(ShowSearchResult(raw)) =>
                            currentDisplayList' = ShowSearchResult(raw)
              /\ (view = "episodes" /\ handleEpisodeSearchEvent(raw)) =>
                     currentDisplayList' =
                         SelectSeq(allEpisodes.items,
                                   LAMBDA e : EpisodeWanted(e, trim(raw)))]_vars

\* C24 witness: "B" was searched in three shows, of which the filter keeps the
\* show without summary and genres for its name "bc" and the show "ca" for its
\* genres, and drops the show "A".
C24_Witness ==
    /\ view = "shows"
    /\ allShows = <<13, 2, 12>>
    /\ value = <<"b">>
    /\ FilterShows(allShows, value) = <<13, 12>>
    /\ currentPage = 1
    /\ cardContainer.items = <<>>

\* C25: there is never more than one status message, and after a successful
\* episode load no error message is left.
C25_OneStatusMessage ==
    /\ [](Len(statusMessages) <= 1)
    /\ [][\A s \in ShowIds :
             EpisodesResponse(s, "ok") =>
                 \A i \in DOMAIN statusMessages' : statusMessages'[i] /= "failed"]_vars

\* C26: every selection of a show, by card or by dropdown, issues one request
\* for the episodes of that show, whatever was requested before, and neither a
\* selection nor the completion of an episode fetch changes fetchCache.
C26_OneRequestPerSelection ==
    /\ [][\A s \in SelectedShows :
             (ShowCardClick(s) \/ handleShowDropDownChange(s)) =>
                 /\ episodeRequests' = episodeRequests + 1
                 /\ inflight' = [inflight EXCEPT ![s] = inflight[s] + 1]
                 /\ fetchCache' = fetchCache]_vars
    /\ [][fetchCache' /= fetchCache =>
             \A s \in ShowIds, kind \in EpisodeResponseKinds :
                 ~EpisodesResponse(s, kind)]_vars

\* C26 witness: show 1 was selected twice and both requests are outstanding.
C26_Witness ==
    /\ episodeRequests = 2
    /\ inflight[1] = 2
    /\ currentShowId = 1

\* C27: once setup has stored the catalog, no step changes allShows or
\* fetchCache.
C27_CatalogFrozen ==
    [][setupPc = "ready" => allShows' = allShows /\ fetchCache' = fetchCache]_vars

\* C27 witness: after two selections, an episode load, a search and a change of
\* page size, the catalog is the sorted list setup stored.
C27_Witness ==
    /\ setupPc = "ready"
    /\ episodeRequests = 2
    /\ allEpisodes = JArray(ServerEpisodes(2))
    /\ value /= <<>>
    /\ itemsPerPage = 6
    /\ view = "shows"
    /\ allShows = <<3, 2, 7, 4, 8, 6, 1, 5, 11, 9, 10, 12>>
    /\ DOMAIN fetchCache = 0..9

\* C28 as stated: whenever createPagination renders page numbers for a
\* currentPage in 1..totalPages there are min(5, totalPages) of them, also when
\* currentPage is near the last page.
C28_WindowKeepsItsSize ==
    [][(paginationContainer'.controls /\ currentPage' \in 1..totalPages' /\ Renders) =>
          Cardinality(paginationContainer'.pages) = Min(5, totalPages')]_vars

\* The size of the window of page numbers shown.
WindowSize ==
    /\ Cardinality(paginationContainer.pages) =
           Min(5, totalPages - Max(1, currentPage - 2) + 1)
    /\ (totalPages >= 5 /\ currentPage = totalPages) =>
           Cardinality(paginationContainer.pages) = 3
    /\ (totalPages >= 5 /\ currentPage = totalPages - 1) =>
           Cardinality(paginationContainer.pages) = 4
    /\ currentPage <= totalPages - 2 =>
           Cardinality(paginationContainer.pages) = Min(5, totalPages)

\* C28 amended: for every currentPage in 1..totalPages the window starts at
\* max(1, currentPage - 2) and never moves left of that, so it has
\* min(5, totalPages - start + 1) numbers: five (or all
\* the pages, if fewer) up to two pages before the last, four on the page before
\* the last and three on the last page of a list of more than four pages.
\* (A step that leaves a window of another size is not a rendering step.)
C28_WindowShrinksAtEnd ==
    [][(paginationContainer'.controls /\ currentPage' \in 1..totalPages' /\ ~WindowSize') =>
          ~Renders]_vars

\* C28 witness: the last of six pages is rendered with the numbers 4, 5, 6.
C28_Witness ==
    /\ paginationContainer.controls
    /\ totalPages = 6
    /\ currentPage = 6
    /\ paginationContainer.pages = 4..6

\* C29: a click on Previous on page 1, and on Next on the last page, leaves
\* currentPage and the displayed slice as they were; the click on a page number
\* sets currentPage to that number, which lies in 1..totalPages of the list
\* displayed, and no navigation changes that list.
C29_NavigationClamps ==
    /\ [][(currentPage = 1 /\ PrevClick) =>
             currentPage' = 1 /\ cardContainer' = cardContainer]_vars
    /\ [][(currentPage = totalPages /\ NextClick) =>
             currentPage' = currentPage /\ cardContainer' = cardContainer]_vars
    /\ [][\A i \in paginationContainer.pages :
             PageNumberClick(i) =>
                 /\ currentPage' = i
                 /\ i \in 1..totalPages'
                 /\ totalPages' = CeilDiv(Len(currentDisplayList), itemsPerPage)]_vars
    /\ [][(PrevClick \/ NextClick \/ \E i \in paginationContainer.pages : PageNumberClick(i)) =>
             /\ currentDisplayList' = currentDisplayList
             /\ currentPage' \in 1..totalPages']_vars

\* C30: a response that carries a list of episodes installs that list, whole
\* and in the server's order, as the pagination source with currentPage = 1,
\* whatever query is stored.
C30_LoadInstallsWholeList ==
    [][\A s \in ShowIds, kind \in SuccessKinds :
          EpisodesResponse(s, kind) =>
              /\ currentDisplayList' = ServedEpisodes(s, kind)
              /\ currentType' = "episodes"
              /\ currentPage' = 1
              /\ cardContainer'.items =
                     SubSeq(ServedEpisodes(s, kind), 1,
                            Min(itemsPerPage, Len(ServedEpisodes(s, kind))))]_vars

\* C31: the back action clears the selection made for the show that was left:
\* after it currentShowId is null, the show dropdown is on "allShows" and the
\* episode dropdown names no episode.
C31_BackClearsSelection ==
    [][BackToShows =>
          /\ currentShowId' = null
          /\ dDBAllShows'.value = allShows_option
          /\ dropDownBoxFill'.value \in {all_option, NoValue}]_vars

\* C32: a change of the episode dropdown to "all" displays all of allEpisodes,
\* a change to an episode id displays the episodes of allEpisodes with that id,
\* at most one; either way currentPage becomes 1 and allEpisodes is unchanged.
C32_EpisodePicker ==
    [][\A v \in PickedEpisodes :
          handleEpisodeDropDownChange(v) =>
              /\ currentPage' = 1
              /\ allEpisodes' = allEpisodes
              /\ currentType' = "episodes"
              /\ v = all_option => currentDisplayList' = allEpisodes.items
              /\ v /= all_option =>
                    /\ Len(currentDisplayList') <= 1
                    /\ currentDisplayList' =
                           IF \E i \in DOMAIN allEpisodes.items : allEpisodes.items[i] = v
                           THEN <<v>> ELSE <<>>
              /\ cardContainer'.items =
                     SubSeq(currentDisplayList', 1, Min(itemsPerPage, Len(currentDisplayList')))]_vars

\* C33: every episode search input handled in the episodes view leaves the
\* episode dropdown naming no single episode.
C33_SearchResetsPicker ==
    [][\A raw \in SearchInputs :
          (view = "episodes" /\ handleEpisodeSearchEvent(raw)) =>
              dropDownBoxFill'.value \in {all_option, NoValue}]_vars

\* C34: until setup has finished every step is a step of the catalog load, so
\* no user event is handled; the step that finishes setup leaves view = "shows",
\* currentType = "shows", currentPage = 1 and the whole catalog as the
\* pagination source; view is always "shows" or "episodes".
C34_InitialStateShows ==
    /\ [][setupPc /= "ready" =>
             /\ SetupStart \/ \E kind \in PageResponseKinds : PageResponse(kind)
             /\ view = "shows" /\ value = <<>> /\ currentShowId = null
             /\ episodeRequests = 0 /\ cardContainer.items = <<>>
             /\ ~paginationContainer.controls]_vars
    /\ [][(setupPc /= "ready" /\ setupPc' = "ready") =>
             /\ view' = "shows"
             /\ currentType' = "shows"
             /\ currentPage' = 1
             /\ currentDisplayList' = allShows'
             /\ cardContainer'.items = SubSeq(allShows', 1, Min(itemsPerPage', Len(allShows')))]_vars
    /\ [](view \in {"shows", "episodes"})

\* C34 witness: setup has just finished with the twelve shows of the catalog
\* and no user event has been handled yet.
C34_Witness ==
    /\ setupPc = "ready"
    /\ Len(allShows) = 12
    /\ view = "shows"
    /\ currentType = "shows"
    /\ currentDisplayList = allShows
    /\ currentPage = 1
    /\ episodeRequests = 0
    /\ value = <<>>
    /\ itemsPerPage = DefaultItemsPerPage
    /\ dDBAllShows.value = allShows_option

\* C35: currentDisplayList is an order-preserving sublist of allShows when
\* currentType = "shows" and of allEpisodes when currentType = "episodes".
C35_DisplayListFromBackingList ==
    /\ currentType = "shows" => IsSubsequence(currentDisplayList, allShows)
    /\ currentType = "episodes" =>
           /\ allEpisodes.type = "array"
           /\ IsSubsequence(currentDisplayList, allEpisodes.items)

\* C36: whenever no episode request is outstanding, currentType = view.
C36_TypeFollowsView ==
    (\A s \in ShowIds : inflight[s] = 0) => currentType = view


\* ------------------------------------------------------ further specifications

(***************************************************************************)
(* CardSpec is the viewer under a user who selects shows by their cards    *)
(* only and never touches the show dropdown.  A card click puts the view   *)
(* in "episodes", so whenever the view is "shows" in CardSpec, every       *)
(* outstanding episode request was issued before the back action that put  *)
(* it there.                                                               *)
(***************************************************************************)
CardNext ==
    \/ SetupStart
    \/ \E kind \in PageResponseKinds : PageResponse(kind)
    \/ \E s \in SelectedShows : ShowCardClick(s)
    \/ \E s \in ShowIds :
           inflight[s] > 0 /\ \E kind \in EpisodeResponseKinds : EpisodesResponse(s, kind)
    \/ \E raw \in SearchInputs : handleShowSearchEvent(raw)
    \/ \E raw \in SearchInputs : handleEpisodeSearchEvent(raw)
    \/ \E v \in PickedEpisodes : handleEpisodeDropDownChange(v)
    \/ BackToShows
    \/ PrevClick
    \/ NextClick
    \/ \E i \in paginationContainer.pages : PageNumberClick(i)
    \/ \E n \in PageSizes : ItemsPerPageChange(n)

CardSpec == Init /\ [][CardNext]_vars

(***************************************************************************)
(* LiveSpec is the viewer with a network that answers every episode        *)
(* request: fetch() settles its promise, and the promise chain of          *)
(* fetchEpisodesByShowId then runs.                                        *)
(***************************************************************************)
LiveSpec ==
    Spec /\ WF_vars(\E s \in ShowIds, kind \in EpisodeResponseKinds : EpisodesResponse(s, kind))

\* C37 (under CardSpec): a response that arrives while the view is "shows" and
\* the shows grid is displayed leaves the grid and the list behind it as they
\* are.
C37_LateResponseKeepsShowsGrid ==
    [][\A s \in ShowIds, kind \in EpisodeResponseKinds :
          (view = "shows" /\ currentType = "shows" /\ EpisodesResponse(s, kind)) =>
              /\ currentType' = "shows"
              /\ currentDisplayList' = currentDisplayList
              /\ cardContainer' = cardContainer]_vars

\* C38 (under LiveSpec): from some point on no "Loading episodes..." message is
\* on the page.
C38_LoadingMessageGoes ==
    <>[](\A i \in DOMAIN statusMessages : statusMessages[i] /= "loading")

\* C39: allEpisodes has a length, episodeCounter is that length, and while
\* episodes are displayed
\* it is at least the number of episodes in the displayed list.
C39_CounterIsLength ==
    /\ length(allEpisodes) /= TypeError
    /\ episodeCounter = length(allEpisodes)
    /\ currentType = "episodes" => Len(currentDisplayList) <= episodeCounter

====
